---- MODULE Spec2Model ----
(***************************************************************************)
(* Wavetable Tools (wtt.py): the Wavetable record, the WAVE and WT codecs, *)
(* the cycle transforms (slicer, deduplicator, trim, choose_channel) and   *)
(* the loop of a programme over its input paths.                           *)
(* Byte strings are sequences of integers 0..255; a file is the byte       *)
(* string it holds.  Every method of class Wavetable is an operator from   *)
(* the record (and the file) to the record (and the file) it leaves, with  *)
(* the value it returns: "None", "True", or "raised" when a Python         *)
(* exception leaves the method.                                            *)
(***************************************************************************)
EXTENDS Integers, Sequences, FiniteSets, TLC

VARIABLES
    rec,      \* the Wavetable instance being worked on
    prev,     \* the instance as it was before the last operation
    file,     \* content of the file at the output / input path
    pfile,    \* content of that file before the last operation
    pos,      \* read position of open_file inside wav_import
    hist,     \* names of the operations applied so far, oldest first
    arg,      \* arguments of the last call that took any
    ret,      \* what the last operation returned: "None", "True", "raised";
              \* "reading" while wav_import is inside its chunk loop
    cycles,   \* the list returned by the last slicer call
    inpaths,  \* the input paths a programme has still to work on, as the
              \* extension and content of the file at each
    log       \* what the programme logged for each input path it finished

vars == <<rec, prev, file, pfile, pos, hist, arg, ret, cycles, inpaths, log>>

(***************************************************************************)
(* Bounds of the model.                                                    *)
(***************************************************************************)
MaxLen == 5     \* longest sample buffer enumerated for the cycle transforms
MaxOps == 2     \* operations applied to one record in a run
MaxData == 2    \* longest sample buffer enumerated for the codecs

(***************************************************************************)
(* Python values.                                                          *)
(***************************************************************************)
\* data_samples = None (no byte is negative, so no buffer equals it)
None == << -1 >>
\* wave_count = None
NoneInt == -1
\* no file at the path
NoFile == << -2 >>

Min(a, b) == IF a < b THEN a ELSE b
Max(a, b) == IF a > b THEN a ELSE b
Abs(a) == IF a < 0 THEN -a ELSE a

\* int(a / b) for b # 0: the quotient truncated toward zero
TruncDiv(a, b) ==
    IF (a >= 0) = (b > 0) THEN Abs(a) \div Abs(b) ELSE -(Abs(a) \div Abs(b))

\* s[a:b] of a bytes object, 0 <= a; a negative b counts from the end
PySlice(s, a, b) ==
    LET stop == IF b < 0 THEN Max(0, Len(s) + b) ELSE Min(b, Len(s))
    IN  SubSeq(s, a + 1, stop)

\* s[a:]
PyFrom(s, a) == SubSeq(s, a + 1, Len(s))

RECURSIVE Join(_)
\* b''.join(list)
Join(list) ==
    IF list = << >> THEN << >> ELSE Head(list) \o Join(Tail(list))

Last(s) == s[Len(s)]

(***************************************************************************)
(* The record: __init__ with init_defaults (wtt.py 46-60).                 *)
(***************************************************************************)
Fields ==
    {"data_samples", "fmt_audio_format", "fmt_bits_p_sample", "fmt_bytes_p_block",
     "fmt_bytes_p_sec", "fmt_channels", "fmt_sample_rate", "wave_count",
     "wave_interp", "wave_size", "wave_vendor"}

\* 'wavetable (wavetabletools)'
DefaultVendor ==
    <<119, 97, 118, 101, 116, 97, 98, 108, 101, 32, 40, 119, 97, 118, 101,
      116, 97, 98, 108, 101, 116, 111, 111, 108, 115, 41>>

\* One character of str.encode(encoding='ansi') (Windows-1252), the string
\* given by its code points: ASCII and U+00A0..U+00FF are their own bytes,
\* the euro sign U+20AC is byte 0x80, the ellipsis U+2026 is byte 0x85
AnsiByte(c) ==
    IF c = 8364 THEN 128 ELSE IF c = 8230 THEN 133 ELSE c

EncodeAnsi(s) == [i \in 1..Len(s) |-> AnsiByte(s[i])]

Get(d, k, default) == IF k \in DOMAIN d THEN d[k] ELSE default

\* Wavetable(init_defaults)
Wavetable(init_defaults) ==
    [data_samples      |-> Get(init_defaults, "data_samples", None),
     fmt_audio_format  |-> Get(init_defaults, "fmt_audio_format", 1),
     fmt_bits_p_sample |-> Get(init_defaults, "fmt_bits_p_sample", 16),
     fmt_bytes_p_block |-> Get(init_defaults, "fmt_bytes_p_block", 2),
     fmt_bytes_p_sec   |-> Get(init_defaults, "fmt_bytes_p_sec", 176400),
     fmt_channels      |-> Get(init_defaults, "fmt_channels", 1),
     fmt_sample_rate   |-> Get(init_defaults, "fmt_sample_rate", 88200),
     wave_count        |-> Get(init_defaults, "wave_count", NoneInt),
     wave_interp       |-> Get(init_defaults, "wave_interp", 0),
     wave_size         |-> Get(init_defaults, "wave_size", 2048),
     wave_vendor       |-> EncodeAnsi(Get(init_defaults, "wave_vendor", DefaultVendor))]

(***************************************************************************)
(* Derived fields (wtt.py 214-221).                                        *)
(***************************************************************************)
calc_fmt_bytes_p_block(r) == TruncDiv(r.fmt_channels * r.fmt_bits_p_sample, 8)

calc_fmt_bytes_p_sec(r) == r.fmt_sample_rate * r.fmt_bytes_p_block

\* len(None) is a TypeError, a zero divisor a ZeroDivisionError
calc_wave_count_raises(r) ==
    r.data_samples = None \/ r.wave_size * r.fmt_bytes_p_block = 0

\* a cycle count that takes wave_size for the cycle length in bytes
calc_wave_count_samples(r) == TruncDiv(Len(r.data_samples), r.wave_size)
calc_wave_count(r) ==
    TruncDiv(Len(r.data_samples), r.wave_size * r.fmt_bytes_p_block)

(***************************************************************************)
(* set_data (wtt.py 62-87).  The arguments are a function from the names   *)
(* of the arguments that are not None to their values.                     *)
(***************************************************************************)
Truthy(a, k) == k \in DOMAIN a /\ a[k] # 0

set_data(r, a, recalc) ==
    LET r1 == [k \in Fields |->
                 IF k \in DOMAIN a
                 THEN (IF k = "wave_vendor" THEN EncodeAnsi(a[k]) ELSE a[k])
                 ELSE r[k]]
        doit == recalc /\ (\/ Truthy(a, "fmt_bits_p_sample") \/ Truthy(a, "fmt_channels")
                           \/ Truthy(a, "fmt_sample_rate") \/ Truthy(a, "wave_size"))
        r2 == [r1 EXCEPT !.fmt_bytes_p_block = calc_fmt_bytes_p_block(r1)]
        r3 == [r2 EXCEPT !.fmt_bytes_p_sec = calc_fmt_bytes_p_sec(r2)]
    IN  IF ~doit THEN [rec |-> r1, ret |-> "None"]
        ELSE IF calc_wave_count_raises(r3) THEN [rec |-> r3, ret |-> "raised"]
        ELSE [rec |-> [r3 EXCEPT !.wave_count = calc_wave_count(r3)], ret |-> "None"]

(***************************************************************************)
(* Cycle transforms (wtt.py 294-358).                                      *)
(***************************************************************************)
\* range(0, n, step) for step > 0 has ceil(n / step) elements
RangeLen(n, step) == IF step > 0 THEN (n + step - 1) \div step ELSE 0

\* slicer without the short last slice (range stopping at the last whole cycle)
slicer_whole_only(r) ==
    LET c == r.wave_size * r.fmt_bytes_p_block
    IN  IF r.data_samples = None \/ c = 0
        THEN [cycles |-> << >>, ret |-> "raised"]
        ELSE [cycles |-> [k \in 1..(Len(r.data_samples) \div c) |->
                            PySlice(r.data_samples, (k - 1) * c, (k - 1) * c + c)],
              ret |-> "None"]

\* slicer stepping by wave_size samples instead of whole cycles of bytes
slicer_sample_step(r) ==
    LET c == r.wave_size * r.fmt_bytes_p_block
    IN  IF r.data_samples = None \/ c = 0
        THEN [cycles |-> << >>, ret |-> "raised"]
        ELSE [cycles |-> [k \in 1..RangeLen(Len(r.data_samples), r.wave_size) |->
                            PySlice(r.data_samples, (k - 1) * r.wave_size,
                                    (k - 1) * r.wave_size + c)],
              ret |-> "None"]

slicer(r) ==
    LET c == r.wave_size * r.fmt_bytes_p_block
    IN  IF r.data_samples = None \/ c = 0
        THEN [cycles |-> << >>, ret |-> "raised"]
        ELSE [cycles |-> [k \in 1..RangeLen(Len(r.data_samples), c) |->
                            PySlice(r.data_samples, (k - 1) * c, (k - 1) * c + c)],
              ret |-> "None"]

RECURSIVE DedupeLoopUnique(_, _)
\* the loop keeping a cycle only if no kept cycle equals it (globally unique)
DedupeLoopUnique(cycles_dedupe, rest) ==
    IF rest = << >> THEN cycles_dedupe
    ELSE IF \A i \in 1..Len(cycles_dedupe) : Head(rest) # cycles_dedupe[i]
         THEN DedupeLoopUnique(Append(cycles_dedupe, Head(rest)), Tail(rest))
         ELSE DedupeLoopUnique(cycles_dedupe, Tail(rest))

\* the loop leaving after the first duplicate it drops
DedupeLoopOnce(cycles_dedupe, rest) ==
    IF rest = << >> THEN cycles_dedupe
    ELSE IF Head(rest) # cycles_dedupe[Len(cycles_dedupe)]
         THEN cycles_dedupe \o rest
         ELSE cycles_dedupe \o Tail(rest)

RECURSIVE DedupeLoop(_, _)
\* for cycle in rest: if cycle != cycles_dedupe[-1]: cycles_dedupe.append(cycle)
DedupeLoop(cycles_dedupe, rest) ==
    IF rest = << >> THEN cycles_dedupe
    ELSE IF Head(rest) # Last(cycles_dedupe)
         THEN DedupeLoop(Append(cycles_dedupe, Head(rest)), Tail(rest))
         ELSE DedupeLoop(cycles_dedupe, Tail(rest))

\* deduplicator that sets wave_interp and wave_count before it compares the
\* two lengths
deduplicator_resets(r) ==
    LET s == slicer(r)
        cycles_all == s.cycles
    IN  IF s.ret = "raised" \/ cycles_all = << >>
        THEN [rec |-> r, ret |-> "raised"]
        ELSE LET cycles_dedupe == DedupeLoop(<<cycles_all[1]>>, Tail(cycles_all))
             IN  IF Len(cycles_all) = Len(cycles_dedupe)
                 THEN [rec |-> [r EXCEPT !.wave_interp = 0,
                                         !.wave_count = Len(cycles_dedupe)],
                       ret |-> "True"]
                 ELSE [rec |-> [r EXCEPT !.data_samples = Join(cycles_dedupe),
                                         !.wave_interp = 0,
                                         !.wave_count = Len(cycles_dedupe)],
                       ret |-> "None"]
deduplicator(r) ==
    LET s == slicer(r)
        cycles_all == s.cycles
    IN  IF s.ret = "raised" \/ cycles_all = << >>
        THEN [rec |-> r, ret |-> "raised"]
        ELSE LET cycles_dedupe == DedupeLoop(<<cycles_all[1]>>, Tail(cycles_all))
             IN  IF Len(cycles_all) = Len(cycles_dedupe)
                 THEN [rec |-> r, ret |-> "True"]
                 ELSE [rec |-> [r EXCEPT !.data_samples = Join(cycles_dedupe),
                                         !.wave_interp = 0,
                                         !.wave_count = Len(cycles_dedupe)],
                       ret |-> "None"]

\* trim counting samples instead of bytes (fmt_bytes_p_block forgotten)
trim_samples(r) ==
    IF r.data_samples = None \/ r.wave_count = NoneInt
    THEN [rec |-> r, ret |-> "raised"]
    ELSE [rec |-> [r EXCEPT !.data_samples =
                      PySlice(r.data_samples, 0, r.wave_count * r.wave_size)],
          ret |-> "None"]

trim(r) ==
    IF r.data_samples = None \/ r.wave_count = NoneInt
    THEN [rec |-> r, ret |-> "raised"]
    ELSE [rec |-> [r EXCEPT !.data_samples =
                      PySlice(r.data_samples, 0,
                              r.wave_count * r.wave_size * r.fmt_bytes_p_block)],
          ret |-> "None"]

\* the stride that ignores its offset (both channels read from sample 0)
Stride2Left(list, offset) ==
    [k \in 1..((Len(list) + 1) \div 2) |-> list[2 * (k - 1) + 1]]

\* samples_list[offset::2], offset in {0, 1}
Stride2(list, offset) ==
    [k \in 1..((Len(list) - offset + 1) \div 2) |-> list[2 * (k - 1) + offset + 1]]

\* choose_channel that takes every count below 2 for mono
choose_channel_over_two(r, right) ==
    IF r.fmt_channels <= 1 THEN [rec |-> r, ret |-> "None"]
    ELSE IF r.fmt_channels = 2 THEN
        LET bytes_p_sample == TruncDiv(r.fmt_bytes_p_block, r.fmt_channels)
        IN  IF r.data_samples = None \/ bytes_p_sample = 0
            THEN [rec |-> r, ret |-> "raised"]
            ELSE
              LET total_num_samples == TruncDiv(Len(r.data_samples), bytes_p_sample)
                  samples_list == [n \in 1..Max(total_num_samples, 0) |->
                      PySlice(r.data_samples, (n - 1) * bytes_p_sample, n * bytes_p_sample)]
                  channels == <<Stride2(samples_list, 0), Stride2(samples_list, 1)>>
                  s1 == set_data(r, [fmt_channels |-> 1], TRUE)
                  r2 == [s1.rec EXCEPT !.data_samples =
                            IF right THEN Join(channels[2]) ELSE Join(channels[1])]
              IN  IF s1.ret = "raised" THEN s1
                  ELSE set_data(r2, [fmt_channels |-> 1], TRUE)
    ELSE [rec |-> r, ret |-> "True"]
choose_channel(r, right) ==
    IF r.fmt_channels = 1 THEN [rec |-> r, ret |-> "None"]
    ELSE IF r.fmt_channels = 2 THEN
        LET bytes_p_sample == TruncDiv(r.fmt_bytes_p_block, r.fmt_channels)
        IN  IF r.data_samples = None \/ bytes_p_sample = 0
            THEN [rec |-> r, ret |-> "raised"]
            ELSE
              LET total_num_samples == TruncDiv(Len(r.data_samples), bytes_p_sample)
                  samples_list == [n \in 1..Max(total_num_samples, 0) |->
                      PySlice(r.data_samples, (n - 1) * bytes_p_sample, n * bytes_p_sample)]
                  channels == <<Stride2(samples_list, 0), Stride2(samples_list, 1)>>
                  s1 == set_data(r, [fmt_channels |-> 1], TRUE)
                  r2 == [s1.rec EXCEPT !.data_samples =
                            IF right THEN Join(channels[2]) ELSE Join(channels[1])]
              IN  IF s1.ret = "raised" THEN s1
                  ELSE set_data(r2, [fmt_channels |-> 1], TRUE)
    ELSE [rec |-> r, ret |-> "True"]

(***************************************************************************)
(* Bytes and files.                                                        *)
(***************************************************************************)
RECURSIVE Pow256(_)
Pow256(w) == IF w = 0 THEN 1 ELSE 256 * Pow256(w - 1)

\* n.to_bytes(w, 'little') raises OverflowError unless 0 <= n < 256^w, and
\* AttributeError when n is None.  The integers of the model stay below
\* 2^31, so every one of them that is not negative fits 4 bytes.
CanToBytes(n, w) == n # NoneInt /\ n >= 0 /\ (w >= 4 \/ n < Pow256(w))

ToBytes(n, w) == [i \in 1..w |-> (n \div Pow256(i - 1)) % 256]

RECURSIVE FromBytes(_)
\* int.from_bytes(b, 'little'); b'' is 0
FromBytes(b) == IF b = << >> THEN 0 ELSE Head(b) + 256 * FromBytes(Tail(b))

\* open_file.read(n) at position p: the bytes left, at most n of them
Read(f, p, n) == SubSeq(f, p + 1, Min(p + n, Len(f)))

RECURSIVE BitAnd(_, _)
\* a & b for a >= 0 and b >= 0 (and 0 & b for any b)
BitAnd(a, b) ==
    IF a = 0 \/ b = 0 THEN 0
    ELSE (a % 2) * (b % 2) + 2 * BitAnd(a \div 2, b \div 2)

RECURSIVE WriteAll(_)
\* the open_file.write calls of a with-block in order: each item is the bytes
\* to write, or ok = FALSE when evaluating the argument raises.  The file
\* holds what was written before the exception (the with-block closes it).
WriteAll(items) ==
    IF items = << >> THEN [bytes |-> << >>, ret |-> "None"]
    ELSE IF ~Head(items).ok THEN [bytes |-> << >>, ret |-> "raised"]
    ELSE LET t == WriteAll(Tail(items))
         IN  [bytes |-> Head(items).bytes \o t.bytes, ret |-> t.ret]

Item(b) == [ok |-> TRUE, bytes |-> b]
IntItem(n, w) == [ok |-> CanToBytes(n, w), bytes |-> IF CanToBytes(n, w) THEN ToBytes(n, w) ELSE << >>]
DataItem(d) == [ok |-> d # None, bytes |-> IF d # None THEN d ELSE << >>]

(***************************************************************************)
(* WT codec (wtt.py 158-212, 261-286).                                     *)
(***************************************************************************)
TagVawt == <<118, 97, 119, 116>>

is_sample(flags) == BitAnd(flags, 1) # 0
is_looped(flags) == BitAnd(flags, 2) # 0
\* is_int16 testing the full-range bit
is_int16_bit3(flags) == BitAnd(flags, 8) # 0
is_int16(flags) == BitAnd(flags, 4) # 0
is_full_range(flags) == BitAnd(flags, 8) # 0

\* wt_parse_flags that sets 16 bits and otherwise leaves the depth alone
wt_parse_flags_int16_only(r, flags) ==
    IF is_sample(flags) THEN [rec |-> r, ret |-> "True"]
    ELSE IF is_looped(flags) THEN [rec |-> r, ret |-> "True"]
    ELSE [rec |-> [r EXCEPT !.fmt_bits_p_sample = IF is_int16(flags) THEN 16 ELSE @],
          ret |-> "None"]

wt_parse_flags(r, flags) ==
    IF is_sample(flags) THEN [rec |-> r, ret |-> "True"]
    ELSE IF is_looped(flags) THEN [rec |-> r, ret |-> "True"]
    ELSE [rec |-> [r EXCEPT !.fmt_bits_p_sample = IF is_int16(flags) THEN 16 ELSE 32],
          ret |-> "None"]

\* wt_import that reads the sample bytes before it looks at the flags
wt_import_data_first(r, f) ==
    IF f = NoFile THEN [rec |-> r, ret |-> "raised"]
    ELSE
      LET r1 == [r EXCEPT !.wave_size = FromBytes(Read(f, 4, 4)),
                          !.wave_count = FromBytes(Read(f, 8, 2)),
                          !.data_samples = PyFrom(f, Min(12, Len(f)))]
          p == wt_parse_flags(r1, FromBytes(Read(f, 10, 2)))
      IN  IF p.ret = "True" THEN p
          ELSE set_data(p.rec,
                        [fmt_audio_format |-> 1, fmt_channels |-> 1, fmt_sample_rate |-> 88200],
                        TRUE)

\* wt_import as main.py 129-150 has it: derived fields set one by one, the
\* wave_count of the file kept
wt_import_stored_count(r, f) ==
    IF f = NoFile THEN [rec |-> r, ret |-> "raised"]
    ELSE
      LET r1 == [r EXCEPT !.wave_size = FromBytes(Read(f, 4, 4)),
                          !.wave_count = FromBytes(Read(f, 8, 2))]
          p == wt_parse_flags(r1, FromBytes(Read(f, 10, 2)))
          r2 == [p.rec EXCEPT !.data_samples = PyFrom(f, Min(12, Len(f))),
                              !.fmt_audio_format = 1, !.fmt_channels = 1,
                              !.fmt_sample_rate = 88200]
          r3 == [r2 EXCEPT !.fmt_bytes_p_block = calc_fmt_bytes_p_block(r2)]
      IN  IF p.ret = "True" THEN p
          ELSE [rec |-> [r3 EXCEPT !.fmt_bytes_p_sec = calc_fmt_bytes_p_sec(r3)],
                ret |-> "None"]

\* opening a missing file raises FileNotFoundError
wt_import(r, f) ==
    IF f = NoFile THEN [rec |-> r, ret |-> "raised"]
    ELSE
      LET r1 == [r EXCEPT !.wave_size = FromBytes(Read(f, 4, 4)),
                          !.wave_count = FromBytes(Read(f, 8, 2))]
          flags == FromBytes(Read(f, 10, 2))
          p == wt_parse_flags(r1, flags)
          r2 == [p.rec EXCEPT !.data_samples = PyFrom(f, Min(12, Len(f)))]
      IN  IF p.ret = "True" THEN p
          ELSE set_data(r2,
                        [fmt_audio_format |-> 1, fmt_channels |-> 1, fmt_sample_rate |-> 88200],
                        TRUE)

\* a flag whose full-range bit does not depend on the bit depth
wt_set_flag_any_depth(r, sample, looped, full_range) ==
    (IF sample THEN 1 ELSE 0) + (IF looped THEN 2 ELSE 0)
    + (IF r.fmt_bits_p_sample = 16 THEN 4 ELSE 0) + (IF full_range THEN 8 ELSE 0)
wt_set_flag(r, sample, looped, full_range) ==
    (IF sample THEN 1 ELSE 0) + (IF looped THEN 2 ELSE 0)
    + (IF r.fmt_bits_p_sample = 16 THEN 4 + (IF full_range THEN 8 ELSE 0) ELSE 0)

\* wave_size & (wave_size - 1) != 0 or wave_size == 0 (a negative int has
\* infinitely many one bits, so the test rejects it)
wt_bad_wave_size(ws) ==
    IF ws < 0 THEN TRUE ELSE BitAnd(ws, ws - 1) # 0 \/ ws = 0

wt_write(r, f, sample, looped, full_range) ==
    IF r.fmt_channels # 1 THEN [file |-> f, ret |-> "None"]
    ELSE IF wt_bad_wave_size(r.wave_size) THEN [file |-> f, ret |-> "None"]
    ELSE LET w == WriteAll(<<Item(TagVawt), IntItem(r.wave_size, 4),
                             IntItem(r.wave_count, 2),
                             IntItem(wt_set_flag(r, sample, looped, full_range), 2),
                             DataItem(r.data_samples)>>)
         IN  [file |-> w.bytes, ret |-> w.ret]

(***************************************************************************)
(* WAVE codec (wtt.py 89-153, 223-259).                                    *)
(***************************************************************************)
TagRIFF == <<82, 73, 70, 70>>
TagWAVE == <<87, 65, 86, 69>>
TagFmt == <<102, 109, 116, 32>>
TagClm == <<99, 108, 109, 32>>
TagData == <<100, 97, 116, 97>>

RECURSIVE Digits(_)
\* the decimal digits of n >= 0, as ASCII
Digits(n) == IF n < 10 THEN <<48 + n>> ELSE Digits(n \div 10) \o <<48 + (n % 10)>>

\* f'{n}' encoded
FormatInt(n) == IF n < 0 THEN <<45>> \o Digits(-n) ELSE Digits(n)

IsSpace(c) == c \in {9, 10, 11, 12, 13, 32}
IsDigit(c) == c \in 48..57

RECURSIVE LStrip(_)
LStrip(b) == IF b # << >> /\ IsSpace(Head(b)) THEN LStrip(Tail(b)) ELSE b

RECURSIVE RStrip(_)
RStrip(b) ==
    IF b # << >> /\ IsSpace(b[Len(b)]) THEN RStrip(SubSeq(b, 1, Len(b) - 1)) ELSE b

RECURSIVE DigitsValue(_, _)
DigitsValue(b, acc) ==
    IF b = << >> THEN acc
    ELSE IF Head(b) = 95 THEN DigitsValue(Tail(b), acc)
    ELSE DigitsValue(Tail(b), acc * 10 + Head(b) - 48)

\* int(b) of a bytes object: surrounding whitespace stripped, an optional
\* sign, digits with single underscores between them; anything else is a
\* ValueError (ok = FALSE)
PyInt(b) ==
    LET t == RStrip(LStrip(b))
        signed == t # << >> /\ Head(t) \in {43, 45}
        body == IF signed THEN Tail(t) ELSE t
        ok == /\ body # << >>
              /\ IsDigit(body[Len(body)])
              /\ \A i \in 1..Len(body) :
                    \/ IsDigit(body[i])
                    \/ body[i] = 95 /\ i > 1 /\ IsDigit(body[i - 1])
    IN  [ok |-> ok,
         val |-> IF ~ok THEN 0
                 ELSE IF signed /\ Head(t) = 45 THEN -DigitsValue(body, 0)
                 ELSE DigitsValue(body, 0)]

\* a clm payload that is never padded
clm_data_unpadded(r) ==
    <<60, 33, 62>> \o FormatInt(r.wave_size) \o <<32>>
        \o FormatInt(r.wave_interp) \o <<48, 48, 48, 48, 48, 48, 48, 32>> \o r.wave_vendor
\* a clm payload that always gets the pad byte
clm_data_always_padded(r) ==
    <<60, 33, 62>> \o FormatInt(r.wave_size) \o <<32>>
        \o FormatInt(r.wave_interp) \o <<48, 48, 48, 48, 48, 48, 48, 32>> \o r.wave_vendor
        \o <<0>>
\* f'<!>{wave_size} {wave_interp}0000000 ' + wave_vendor, padded to even length
clm_data_of(r) ==
    LET clm_string == <<60, 33, 62>> \o FormatInt(r.wave_size) \o <<32>>
                      \o FormatInt(r.wave_interp) \o <<48, 48, 48, 48, 48, 48, 48, 32>>
        clm_data == clm_string \o r.wave_vendor
    IN  IF Len(clm_data) % 2 = 1 THEN clm_data \o <<0>> ELSE clm_data

\* a RIFF size field holding the whole file length
BackpatchWhole(b) ==
    SubSeq(b, 1, 4) \o ToBytes(Len(b), 4) \o SubSeq(b, 9, Len(b))
\* the file with bytes 4..7 overwritten by the RIFF size (seek(4); write)
Backpatch(b) ==
    SubSeq(b, 1, 4) \o ToBytes(Len(b) - 8, 4) \o SubSeq(b, 9, Len(b))

wav_write(r, f) ==
    LET clm_data == clm_data_of(r)
        w == WriteAll(<<Item(TagRIFF), Item(<<0, 0, 0, 0>>), Item(TagWAVE),
                        Item(TagFmt), Item(<<16, 0, 0, 0>>),
                        IntItem(r.fmt_audio_format, 2), IntItem(r.fmt_channels, 2),
                        IntItem(r.fmt_sample_rate, 4), IntItem(r.fmt_bytes_p_sec, 4),
                        IntItem(r.fmt_bytes_p_block, 2), IntItem(r.fmt_bits_p_sample, 2),
                        Item(TagClm), IntItem(Len(clm_data), 4), Item(clm_data),
                        Item(TagData),
                        [ok |-> r.data_samples # None,
                         bytes |-> IF r.data_samples # None
                                   THEN ToBytes(Len(r.data_samples), 4) ELSE << >>],
                        DataItem(r.data_samples)>>)
    IN  IF w.ret = "raised" THEN [file |-> w.bytes, ret |-> "raised"]
        ELSE [file |-> Backpatch(w.bytes), ret |-> "None"]

\* an else branch that leaves the position behind the 4 bytes it read
resync_none(p) == p
\* the else branch: open_file.seek(-3, os.SEEK_CUR)
resync(p) == p - 3

\* a RIFF branch that accepts any nested marker
riff_marker_any(marker) == "None"
\* the RIFF branch: if open_file.read(4) != b'WAVE': return True
riff_marker(marker) == IF marker # TagWAVE THEN "True" ELSE "None"

\* wav_parse_chunk with open_file at position p, just behind the 4 bytes of
\* chunk_id; pos is the position it leaves open_file at
wav_parse_chunk(r, f, p, chunk_id) ==
    IF chunk_id = TagRIFF THEN
        LET marker == Read(f, p + 4, 4)
        IN  [rec |-> r, pos |-> p + 4 + Len(marker),
             ret |-> riff_marker(marker)]
    ELSE IF chunk_id = TagFmt THEN
        LET q == p + 4
        IN  [rec |-> [r EXCEPT !.fmt_audio_format  = FromBytes(Read(f, q, 2)),
                               !.fmt_channels      = FromBytes(Read(f, q + 2, 2)),
                               !.fmt_sample_rate   = FromBytes(Read(f, q + 4, 4)),
                               !.fmt_bytes_p_sec   = FromBytes(Read(f, q + 8, 4)),
                               !.fmt_bytes_p_block = FromBytes(Read(f, q + 12, 2)),
                               !.fmt_bits_p_sample = FromBytes(Read(f, q + 14, 2))],
             pos |-> Max(q, Min(q + 16, Len(f))),
             ret |-> "None"]
    ELSE IF chunk_id = TagClm THEN
        LET size == Read(f, p, 4)
            q == p + Len(size)
            clm_data == Read(f, q, FromBytes(size))
            ws == PyInt(PySlice(clm_data, 3, 7))
            wi == PyInt(PySlice(clm_data, 8, 9))
            after == q + Len(clm_data)
        IN  IF ~ws.ok THEN [rec |-> r, pos |-> after, ret |-> "raised"]
            ELSE IF ~wi.ok
            THEN [rec |-> [r EXCEPT !.wave_size = ws.val], pos |-> after, ret |-> "raised"]
            ELSE [rec |-> [r EXCEPT !.wave_size = ws.val, !.wave_interp = wi.val,
                                    !.wave_vendor = PyFrom(clm_data, Min(17, Len(clm_data)))],
                  pos |-> after, ret |-> "None"]
    ELSE IF chunk_id = TagData THEN
        LET size == Read(f, p, 4)
            q == p + Len(size)
            d == Read(f, q, FromBytes(size))
        IN  IF r.data_samples = None \/ r.data_samples = << >>
            THEN [rec |-> [r EXCEPT !.data_samples = d], pos |-> q + Len(d), ret |-> "None"]
            ELSE [rec |-> r, pos |-> q, ret |-> "None"]
    ELSE [rec |-> r, pos |-> resync(p), ret |-> "None"]

\* wav_import: the chunk loop from position p to the end of the file, then
\* calc_wave_count
RECURSIVE wav_import_loop(_, _, _)
wav_import_loop(r, f, p) ==
    LET chunk_id == Read(f, p, 4)
    IN  IF Len(chunk_id) # 4
        THEN IF calc_wave_count_raises(r) THEN [rec |-> r, ret |-> "raised"]
             ELSE [rec |-> [r EXCEPT !.wave_count = calc_wave_count(r)], ret |-> "None"]
        ELSE LET s == wav_parse_chunk(r, f, p + 4, chunk_id)
             IN  IF s.ret # "None" THEN [rec |-> s.rec, ret |-> s.ret]
                 ELSE wav_import_loop(s.rec, f, s.pos)

wav_import(r, f) ==
    IF f = NoFile THEN [rec |-> r, ret |-> "raised"] ELSE wav_import_loop(r, f, 0)

(***************************************************************************)
(* Records the cycle transforms are run on: Wavetable(init_defaults) for   *)
(* these init_defaults.                                                    *)
(***************************************************************************)
BitSeqs(n) == UNION {[1..k -> {0, 1}] : k \in 0..n}

\* stored channels / block align / bits per sample, consistent or not
Formats ==
    {[ch |-> 1, ba |-> 1, bits |-> 8],  [ch |-> 1, ba |-> 2, bits |-> 16],
     [ch |-> 2, ba |-> 2, bits |-> 8],  [ch |-> 2, ba |-> 4, bits |-> 16],
     [ch |-> 2, ba |-> 1, bits |-> 8],  [ch |-> 3, ba |-> 3, bits |-> 8],
     [ch |-> 0, ba |-> 1, bits |-> 8]}

\* wave_count is the floored count, as wav_import and wt_import leave it; with
\* a zero cycle length (set_data(wave_size=0) recalculates nothing) it is
\* whatever it was
CycleDefaults ==
    {[data_samples |-> d, wave_size |-> ws, fmt_channels |-> f.ch,
      fmt_bytes_p_block |-> f.ba, fmt_bits_p_sample |-> f.bits,
      wave_count |-> IF ws * f.ba = 0 THEN wc ELSE Len(d) \div (ws * f.ba),
      wave_interp |-> 1] :
        d \in BitSeqs(MaxLen), ws \in {0, 1, 2}, f \in Formats, wc \in {0, 1}}

\* wave_size=4, block_align=2: three identical 8-byte cycles, then a distinct one
ScenarioCycleA == <<1, 2, 3, 4, 5, 6, 7, 8>>
ScenarioCycleB == <<1, 2, 3, 4, 5, 6, 7, 9>>
ScenarioDedupe ==
    Wavetable([data_samples |-> ScenarioCycleA \o ScenarioCycleA \o ScenarioCycleA
                                \o ScenarioCycleB,
               wave_size |-> 4, fmt_bytes_p_block |-> 2, wave_count |-> 4,
               wave_interp |-> 1])

\* stereo 16-bit, two frames L0 R0 L1 R1 of two bytes per sample
ScenarioStereo ==
    Wavetable([data_samples |-> <<10, 11, 20, 21, 12, 13, 22, 23>>,
               wave_size |-> 1, fmt_channels |-> 2, fmt_bytes_p_block |-> 4,
               fmt_bits_p_sample |-> 16, wave_count |-> 2, wave_interp |-> 1])

\* a record as deduplicator (which counts the partial last slice) and
\* set_data(wave_interp=2) leave it: slices 0 0, 1 1 and 5
ScenarioStale ==
    Wavetable([data_samples |-> <<0, 0, 1, 1, 5>>, wave_size |-> 1,
               fmt_bytes_p_block |-> 2, wave_count |-> 3, wave_interp |-> 2])

CycleRecords ==
    {Wavetable(d) : d \in CycleDefaults}
    \cup {ScenarioDedupe, ScenarioStereo, ScenarioStale}

NoArg == [none |-> TRUE]

CycleInit ==
    /\ rec \in CycleRecords
    /\ prev = rec
    /\ file = NoFile
    /\ pfile = file
    /\ pos = 0
    /\ hist = << >>
    /\ arg = NoArg
    /\ ret = "None"
    /\ cycles = << >>
    /\ inpaths = << >>
    /\ log = << >>

\* an exception leaves the programme (main's except logs it and ends); while
\* wav_import reads its file (ret = "reading") nothing else runs
CanCall == Len(hist) < MaxOps /\ ret # "raised" /\ ret # "reading"

Slicer ==
    /\ CanCall
    /\ LET s == slicer(rec)
       IN  /\ cycles' = s.cycles
           /\ ret' = s.ret
    /\ prev' = rec
    /\ hist' = Append(hist, "slicer")
    /\ pfile' = file
    /\ UNCHANGED <<rec, file, pos, arg, inpaths, log>>

Deduplicator ==
    /\ CanCall
    /\ LET s == deduplicator(rec)
       IN  /\ rec' = s.rec
           /\ ret' = s.ret
    /\ prev' = rec
    /\ hist' = Append(hist, "deduplicator")
    /\ pfile' = file
    /\ UNCHANGED <<file, pos, cycles, arg, inpaths, log>>

Trim ==
    /\ CanCall
    /\ LET s == trim(rec)
       IN  /\ rec' = s.rec
           /\ ret' = s.ret
    /\ prev' = rec
    /\ hist' = Append(hist, "trim")
    /\ pfile' = file
    /\ UNCHANGED <<file, pos, cycles, arg, inpaths, log>>

ChooseChannel ==
    /\ CanCall
    /\ \E right \in BOOLEAN :
         LET s == choose_channel(rec, right)
         IN  /\ rec' = s.rec
             /\ ret' = s.ret
             /\ arg' = [right |-> right]
    /\ prev' = rec
    /\ hist' = Append(hist, "choose_channel")
    /\ pfile' = file
    /\ UNCHANGED <<file, pos, cycles, inpaths, log>>

CycleNext == Slicer \/ Deduplicator \/ Trim \/ ChooseChannel

SpecCycle == CycleInit /\ [][CycleNext]_vars

\* the operation that produced the current state
LastOp == IF hist = << >> THEN "init" ELSE Last(hist)

(***************************************************************************)
(* Cycle transform engine: slicer, deduplicator, choose_channel, trim.     *)
(***************************************************************************)
CycleLen(r) == r.wave_size * r.fmt_bytes_p_block

\* C5: slicer on a buffer of c*N bytes returns exactly N slices of c bytes;
\* on c*N + r bytes, 0 < r < c, it returns N+1 slices, the first N of c bytes
\* and the last made of the r trailing bytes of the buffer, unpadded.
C5_SlicerCounts ==
    (LastOp = "slicer" /\ ret = "None" /\ CycleLen(rec) > 0) =>
        LET c == CycleLen(rec)
            n == Len(rec.data_samples) \div c
            r == Len(rec.data_samples) % c
        IN  /\ Len(cycles) = IF r = 0 THEN n ELSE n + 1
            /\ \A k \in 1..n : Len(cycles[k]) = c
            /\ r > 0 => cycles[n + 1] = PyFrom(rec.data_samples, n * c)

C5_Witness ==
    /\ LastOp = "slicer" /\ ret = "None"
    /\ CycleLen(rec) = 2 /\ Len(rec.data_samples) = 3
    /\ Len(cycles) = 2 /\ Len(cycles[2]) = 1

RECURSIVE AdjacentKept(_, _)
\* the slices s[i], i >= from, that are first or differ from s[i-1], in order
AdjacentKept(s, from) ==
    IF from > Len(s) THEN << >>
    ELSE (IF from = 1 \/ s[from] # s[from - 1] THEN <<s[from]>> ELSE << >>)
         \o AdjacentKept(s, from + 1)

\* C3: deduplicator keeps the first slice and each later slice that differs
\* from the most recently kept one (adjacent comparison: A B A is kept whole);
\* when a slice is dropped data_samples is the concatenation of the kept
\* slices, wave_interp is 0 and wave_count is the number of kept slices; three
\* identical 8-byte cycles and a distinct one give 2 cycles.
C3_DedupeAdjacent ==
    (LastOp = "deduplicator" /\ ret # "raised") =>
        LET all == slicer(prev).cycles
            kept == AdjacentKept(all, 1)
        IN  /\ ret = "True" <=> Len(kept) = Len(all)
            /\ ret = "True" => rec = prev
            /\ ret = "None" =>
                 /\ rec.data_samples = Join(kept)
                 /\ rec.wave_interp = 0
                 /\ rec.wave_count = Len(kept)
            /\ (\E a, b \in {<<0>>, <<1>>} : a # b /\ all = <<a, b, a>>) => ret = "True"
            /\ prev = ScenarioDedupe =>
                 /\ slicer(rec).cycles = <<ScenarioCycleA, ScenarioCycleB>>
                 /\ rec.wave_count = 2 /\ rec.wave_interp = 0

C3_Witness ==
    /\ LastOp = "deduplicator" /\ ret = "None"
    /\ prev = ScenarioDedupe
    /\ rec.wave_count = 2

\* C4: a second deduplicator run on the result of a first run reports "no
\* duplicates" (returns True) and leaves the record as the first run left it,
\* also when the buffer ends in a partial cycle.
C4_DedupeIdempotent ==
    (Len(hist) >= 2 /\ hist[Len(hist)] = "deduplicator"
                    /\ hist[Len(hist) - 1] = "deduplicator") =>
        /\ ret = "True"
        /\ rec.data_samples = prev.data_samples
        /\ rec = prev

\* every record of CycleRecords starts with wave_interp = 1, so wave_interp = 0
\* marks a first run that dropped a slice
C4_Witness ==
    /\ hist = <<"deduplicator", "deduplicator">>
    /\ ret = "True"
    /\ prev.wave_interp = 0
    /\ Len(prev.data_samples) % CycleLen(prev) # 0

\* C7: choose_channel on a 2-channel record holding n whole frames keeps, of
\* each frame, the first sample (right = False) or the second (right = True);
\* afterwards channels = 1 and block align, bytes per second and wave_count
\* follow their formulas for the new buffer.
C7_ChooseChannel ==
    (/\ LastOp = "choose_channel" /\ ret = "None" /\ prev.fmt_channels = 2
     /\ Len(prev.data_samples) % (2 * (prev.fmt_bytes_p_block \div 2)) = 0) =>
        LET w == prev.fmt_bytes_p_block \div 2
            n == Len(prev.data_samples) \div (2 * w)
            off == IF arg.right THEN w ELSE 0
        IN  /\ rec.data_samples =
                 [i \in 1..(n * w) |->
                    prev.data_samples[((i - 1) \div w) * 2 * w + off + ((i - 1) % w) + 1]]
            /\ rec.fmt_channels = 1
            /\ rec.fmt_bytes_p_block = (rec.fmt_channels * rec.fmt_bits_p_sample) \div 8
            /\ rec.fmt_bytes_p_sec = rec.fmt_sample_rate * rec.fmt_bytes_p_block
            /\ rec.wave_count =
                 Len(rec.data_samples) \div (rec.wave_size * rec.fmt_bytes_p_block)

C7_Witness ==
    /\ LastOp = "choose_channel" /\ ret = "None"
    /\ prev = ScenarioStereo /\ arg.right
    /\ rec.data_samples = <<20, 21, 22, 23>>
    /\ rec.wave_count = 2

NoAdjacentEqual(s) == \A i \in 2..Len(s) : s[i] # s[i - 1]

\* C22: when deduplicator finds no two adjacent equal slices it returns True
\* and mutates nothing: data_samples, wave_interp (nonzero or not),
\* wave_count (stale or not) and every other field keep their values.
C22_DedupeNoMutation ==
    (LastOp = "deduplicator" /\ ret # "raised"
        /\ NoAdjacentEqual(slicer(prev).cycles)) =>
        (ret = "True" /\ rec = prev)

C22_Witness ==
    /\ LastOp = "deduplicator" /\ ret = "True"
    /\ prev = ScenarioStale
    /\ rec.wave_count = 3 /\ rec.wave_interp = 2
    /\ rec.data_samples = <<0, 0, 1, 1, 5>>

\* C25 as stated: after a deduplicator call that removed a slice, wave_count
\* is floor(len(data_samples) / (wave_size * block_align)), also when the
\* buffer ends in a partial trailing cycle.
C25_DedupeCountFloor ==
    (LastOp = "deduplicator" /\ ret = "None") =>
        /\ CycleLen(rec) > 0
        /\ rec.wave_count = Len(rec.data_samples) \div CycleLen(rec)

\* C26 as stated: deduplicator completes without raising for every buffer
\* when wave_size * block_align > 0, the zero-length buffer included, for
\* which it reports "no duplicates" and mutates nothing.
C26_DedupeNeverRaises ==
    (LastOp = "deduplicator" /\ prev.data_samples # None /\ CycleLen(prev) > 0) =>
        /\ ret # "raised"
        /\ prev.data_samples = << >> => (ret = "True" /\ rec = prev)

\* C30: for every buffer and wave_size * block_align > 0, slicer returns
\* slices that are all non-empty and whose concatenation in order is
\* data_samples, and it leaves data_samples and every other field as they
\* were.
C30_SlicerPartition ==
    (LastOp = "slicer" /\ prev.data_samples # None /\ CycleLen(prev) > 0) =>
        /\ ret = "None"
        /\ \A k \in 1..Len(cycles) : cycles[k] # << >>
        /\ Join(cycles) = prev.data_samples
        /\ rec = prev

C30_Witness ==
    /\ LastOp = "slicer" /\ ret = "None"
    /\ CycleLen(prev) = 2 /\ prev.fmt_bytes_p_block = 2
    /\ Len(prev.data_samples) = 5
    /\ Len(cycles) = 3 /\ Len(cycles[3]) = 1
    /\ Join(cycles) = rec.data_samples
    /\ rec = prev

\* C17: choose_channel on a record with channels = 1 changes nothing and
\* reports no failure; with a channel count that is neither 1 nor 2 (0, 3) it
\* returns True and leaves every field, data_samples included, as it was.
C17_ChooseChannelOther ==
    LastOp = "choose_channel" =>
        /\ prev.fmt_channels = 1 => (ret = "None" /\ rec = prev)
        /\ prev.fmt_channels \notin {1, 2} => (ret = "True" /\ rec = prev)

C17_Witness ==
    /\ LastOp = "choose_channel" /\ ret = "True"
    /\ prev.fmt_channels = 0
    /\ rec.data_samples = <<0, 1, 0>> /\ rec.wave_size = 1 /\ rec.wave_count = 3

OtherFieldsSame(r1, r2) == \A k \in Fields \ {"data_samples"} : r1[k] = r2[k]

IsPrefix(p, s) == Len(p) <= Len(s) /\ p = SubSeq(s, 1, Len(p))

OldFile == <<79, 76, 68>>

\* mono records of 8, 16, 24 and 32 bits with block_align = bits / 8 and a
\* fresh wave_count, holding 0 to MaxLen bytes
WtDepthRecords ==
    {Wavetable([data_samples |-> [i \in 1..n |-> i], wave_size |-> ws,
                fmt_bits_p_sample |-> bits, fmt_bytes_p_block |-> bits \div 8,
                wave_count |-> n \div (ws * (bits \div 8))]) :
        n \in 0..MaxLen, ws \in {1, 2}, bits \in {8, 16, 24, 32}}

\* wave_count is what the last recalculation, deduplicator or set_data left:
\* stale values included, 65536 being the count of a buffer of 65536 cycles
WtRecords ==
    {Wavetable([data_samples |-> d, wave_size |-> ws, fmt_channels |-> ch,
                fmt_bits_p_sample |-> bits, wave_count |-> wc]) :
        d \in BitSeqs(MaxData), ws \in {0, 1, 2, 3000, 1048576},
        ch \in {1, 2}, bits \in {8, 16, 32}, wc \in {0, 3, 65536}}
    \cup {Wavetable(<< >>)}
    \cup WtDepthRecords

\* WT files as any tool may have written them, whole or cut short
WtFiles ==
    LET whole == {tag \o ToBytes(ws, 4) \o ToBytes(1, 2) \o ToBytes(fl, 2) \o d :
                    tag \in {TagVawt, <<0, 0, 0, 0>>}, ws \in {0, 2},
                    fl \in (0..15) \cup {16, 260}, d \in BitSeqs(MaxData)}
    IN  whole \cup {SubSeq(TagVawt \o ToBytes(2, 4) \o ToBytes(1, 2) \o ToBytes(4, 2), 1, n) :
                      n \in 0..11}

WtInit ==
    /\ \/ rec \in WtRecords /\ file \in {NoFile, OldFile}
       \/ rec = Wavetable(<< >>) /\ file \in WtFiles
    /\ prev = rec
    /\ pfile = file
    /\ pos = 0
    /\ hist = << >>
    /\ arg = NoArg
    /\ ret = "None"
    /\ cycles = << >>
    /\ inpaths = << >>
    /\ log = << >>

\* "wt_write" is called once per record
WtWrite ==
    /\ CanCall
    /\ \A i \in 1..Len(hist) : hist[i] # "wt_write"
    /\ \E sample, looped, full_range \in BOOLEAN :
         LET w == wt_write(rec, file, sample, looped, full_range)
         IN  /\ file' = w.file
             /\ ret' = w.ret
             /\ arg' = [is_sample |-> sample, is_looped |-> looped,
                        is_full_range |-> full_range]
    /\ prev' = rec
    /\ pfile' = file
    /\ hist' = Append(hist, "wt_write")
    /\ UNCHANGED <<rec, pos, cycles, inpaths, log>>

\* wavetable_instance = Wavetable(init_defaults); wavetable_instance.wt_import(inpath)
WtImport ==
    /\ CanCall
    /\ LET s == wt_import(Wavetable(<< >>), file)
       IN  /\ rec' = s.rec
           /\ ret' = s.ret
    /\ prev' = rec
    /\ pfile' = file
    /\ hist' = Append(hist, "wt_import")
    /\ UNCHANGED <<file, pos, cycles, arg, inpaths, log>>

WtNext == WtWrite \/ WtImport

SpecWt == WtInit /\ [][WtNext]_vars

IsPow2(n) == \E k \in 0..30 : n = 2 ^ k

\* the flags field of the WT file (bytes 10 and 11)
FileFlags(f) == FromBytes(Read(f, 10, 2))
Bit(n, k) == (n \div (2 ^ k)) % 2 = 1

\* the last two operations were wt_write with its default arguments, which
\* wrote the file, and wt_import of that file
WtRoundTrip ==
    /\ Len(hist) >= 2
    /\ hist[Len(hist)] = "wt_import" /\ hist[Len(hist) - 1] = "wt_write"
    /\ arg = [is_sample |-> FALSE, is_looped |-> FALSE, is_full_range |-> TRUE]
    /\ prev.fmt_channels = 1 /\ IsPow2(prev.wave_size)

\* C2: for a record with channels = 1 and wave_size a nonzero power of two,
\* wt_write then wt_import into a new record gives back data_samples and
\* wave_size, and wave_count = floor(len(data_samples) / (wave_size *
\* block_align)) whatever wave_count the record was written with.
C2_WtRoundTrip ==
    WtRoundTrip =>
        /\ ret = "None"
        /\ rec.data_samples = prev.data_samples
        /\ rec.wave_size = prev.wave_size
        /\ rec.wave_count =
             Len(rec.data_samples) \div (rec.wave_size * rec.fmt_bytes_p_block)

C2_Witness ==
    /\ WtRoundTrip
    /\ prev.wave_size = 2 /\ prev.wave_count = 3 /\ prev.fmt_bits_p_sample = 8
    /\ Len(prev.data_samples) = 2
    /\ rec.wave_count = 0

\* C6 as stated: wt_write writes only if channels = 1 and wave_size is a
\* nonzero power of two; otherwise it returns without raising and leaves the
\* target file as it was; and a file it starts writing is never left partial.
C6_WtWriteAllOrNothing ==
    LastOp = "wt_write" =>
        /\ ~(prev.fmt_channels = 1 /\ IsPow2(prev.wave_size)) =>
             (ret = "None" /\ file = pfile)
        /\ (prev.fmt_channels = 1 /\ IsPow2(prev.wave_size)) =>
             /\ ret = "None"
             /\ file = TagVawt \o ToBytes(prev.wave_size, 4) \o ToBytes(prev.wave_count, 2)
                       \o SubSeq(file, 11, 12) \o prev.data_samples

\* C8: wt_import returns True exactly when bit0 or bit1 of the flags is set,
\* and then data_samples is still what the constructor left (None).
C8_WtFlagsAbort ==
    (LastOp = "wt_import" /\ file # NoFile) =>
        /\ ret = "True" <=> (Bit(FileFlags(file), 0) \/ Bit(FileFlags(file), 1))
        /\ ret = "True" => rec.data_samples = None

C8_Witness ==
    /\ LastOp = "wt_import" /\ ret = "True"
    /\ FileFlags(file) = 6
    /\ Len(file) > 12
    /\ rec.data_samples = None

\* the file with bit3 (full-range) of its flags inverted
FlipBit3(f) ==
    [f EXCEPT ![11] = IF (@ \div 8) % 2 = 1 THEN @ - 8 ELSE @ + 8]

\* C9: when bit0 and bit1 are clear wt_import leaves bits_per_sample = 16 if
\* bit2 is set and 32 otherwise, audio_format = 1, channels = 1, sample_rate
\* = 88200, block_align = bits_per_sample / 8 and bytes_per_second =
\* sample_rate * block_align; inverting bit3 in the file changes nothing of
\* what wt_import decodes.
C9_WtFormatDefaults ==
    (LastOp = "wt_import" /\ file # NoFile) =>
        /\ (~Bit(FileFlags(file), 0) /\ ~Bit(FileFlags(file), 1)) =>
             /\ rec.fmt_bits_p_sample = IF Bit(FileFlags(file), 2) THEN 16 ELSE 32
             /\ rec.fmt_audio_format = 1
             /\ rec.fmt_channels = 1
             /\ rec.fmt_sample_rate = 88200
             /\ rec.fmt_bytes_p_block * 8 = rec.fmt_bits_p_sample
             /\ rec.fmt_bytes_p_sec = rec.fmt_sample_rate * rec.fmt_bytes_p_block
        /\ Len(file) >= 11 =>
             wt_import(Wavetable(<< >>), FlipBit3(file)) = [rec |-> rec, ret |-> ret]

C9_Witness ==
    /\ LastOp = "wt_import" /\ ret = "None"
    /\ FileFlags(file) = 4
    /\ rec.fmt_bits_p_sample = 16 /\ rec.fmt_bytes_p_block = 2
    /\ rec.fmt_bytes_p_sec = 176400
    /\ Len(rec.data_samples) = 2

\* block_align and wave_count are what the formulas give for the record
Consistent(r) ==
    /\ r.fmt_bytes_p_block = calc_fmt_bytes_p_block(r)
    /\ r.wave_size * r.fmt_bytes_p_block > 0
    /\ r.wave_count = Len(r.data_samples) \div (r.wave_size * r.fmt_bytes_p_block)

\* C28 as stated: WT encode then decode maps bits_per_sample to 16 when the
\* record had 16 and to 32 otherwise; for a mono record with bits_per_sample
\* in {16, 32} the round trip preserves bits_per_sample and block_align, and
\* for any other depth (8, 24) the decoded block_align and wave_count differ
\* from the encoded record's while the sample bytes are identical.
C28_DepthDiffers ==
    (WtRoundTrip /\ ret = "None" /\ Consistent(prev)) =>
        /\ rec.fmt_bits_p_sample = IF prev.fmt_bits_p_sample = 16 THEN 16 ELSE 32
        /\ rec.data_samples = prev.data_samples
        /\ prev.fmt_bits_p_sample \in {16, 32} =>
             /\ rec.fmt_bits_p_sample = prev.fmt_bits_p_sample
             /\ rec.fmt_bytes_p_block = prev.fmt_bytes_p_block
        /\ prev.fmt_bits_p_sample \notin {16, 32} =>
             /\ rec.fmt_bytes_p_block # prev.fmt_bytes_p_block
             /\ rec.wave_count # prev.wave_count

\* C28: WT encode then decode maps bits_per_sample to 16 when the record had
\* 16 and to 32 otherwise, sets block_align to bits_per_sample / 8 and
\* wave_count to floor(len / (wave_size * block_align)), and keeps the
\* sample bytes. For a record whose block_align and wave_count were
\* consistent: with 16 or 32 bits all three are preserved; with 8 or 24 bits
\* block_align becomes 4 and differs, and wave_count does not grow: it stays
\* 0 when it was 0, and is smaller when the buffer is one or more whole
\* cycles (with a partial trailing cycle it can stay the same).
C28_DepthMapped ==
    (WtRoundTrip /\ ret = "None") =>
        /\ rec.fmt_bits_p_sample = IF prev.fmt_bits_p_sample = 16 THEN 16 ELSE 32
        /\ rec.fmt_bytes_p_block * 8 = rec.fmt_bits_p_sample
        /\ rec.wave_count =
             Len(rec.data_samples) \div (rec.wave_size * rec.fmt_bytes_p_block)
        /\ rec.data_samples = prev.data_samples
        /\ (Consistent(prev) /\ prev.fmt_bits_p_sample \in {16, 32}) =>
             /\ rec.fmt_bits_p_sample = prev.fmt_bits_p_sample
             /\ rec.fmt_bytes_p_block = prev.fmt_bytes_p_block
             /\ rec.wave_count = prev.wave_count
        /\ (Consistent(prev) /\ prev.fmt_bits_p_sample \in {8, 24}) =>
             /\ rec.fmt_bytes_p_block = 4
             /\ rec.fmt_bytes_p_block # prev.fmt_bytes_p_block
             /\ rec.wave_count <= prev.wave_count
             /\ prev.wave_count = 0 => rec.wave_count = 0
             /\ (prev.wave_count > 0 /\ Len(prev.data_samples) =
                    prev.wave_count * prev.wave_size * prev.fmt_bytes_p_block) =>
                  rec.wave_count < prev.wave_count

\* a 24-bit record of 4 bytes, one cycle and a trailing byte: wave_count 1
\* before and after
C28_Witness ==
    /\ WtRoundTrip /\ ret = "None" /\ Consistent(prev)
    /\ prev.fmt_bits_p_sample = 24 /\ prev.fmt_bytes_p_block = 3
    /\ prev.wave_size = 1 /\ prev.data_samples = <<1, 2, 3, 4>>
    /\ prev.wave_count = 1
    /\ rec.fmt_bits_p_sample = 32 /\ rec.fmt_bytes_p_block = 4
    /\ rec.wave_count = 1

\* C18 as stated, WT half: wt_import on a file whose first four bytes are not
\* 'vawt' reports a failure (True, or an exception) instead of populating the
\* record.
C18_MagicChecked ==
    (LastOp = "wt_import" /\ file # NoFile /\ Read(file, 0, 4) # TagVawt) =>
        ret # "None"

\* wt_write has written a whole file from prev
WtWritten ==
    /\ LastOp = "wt_write" /\ ret = "None"
    /\ prev.fmt_channels = 1 /\ IsPow2(prev.wave_size)

\* bit0, bit1 and bit2 of the written flags, and no bit above bit3
FlagsLowBits ==
    /\ Bit(FileFlags(file), 0) <=> arg.is_sample
    /\ Bit(FileFlags(file), 1) <=> arg.is_looped
    /\ Bit(FileFlags(file), 2) <=> (prev.fmt_bits_p_sample = 16)
    /\ FileFlags(file) < 16

\* C20 as stated: the flags wt_write writes have bit0 set iff is_sample, bit1
\* iff is_looped, bit2 iff bits_per_sample = 16, bit3 iff is_full_range, and
\* no other bit, for every combination of the booleans and every bit depth.
C20_FlagsBit3Always ==
    WtWritten =>
        (FlagsLowBits /\ (Bit(FileFlags(file), 3) <=> arg.is_full_range))

\* C20 amended: bit3 is set iff is_full_range and bits_per_sample = 16.
C20_FlagsBit3Int16 ==
    WtWritten =>
        /\ FlagsLowBits
        /\ Bit(FileFlags(file), 3) <=>
              (arg.is_full_range /\ prev.fmt_bits_p_sample = 16)

\* a 32-bit record written with is_full_range: only the sample bit is set
C20_Witness ==
    /\ WtWritten
    /\ prev.fmt_bits_p_sample = 32
    /\ arg = [is_sample |-> TRUE, is_looped |-> FALSE, is_full_range |-> TRUE]
    /\ FileFlags(file) = 1
    /\ Len(file) = 14

(***************************************************************************)
(* WAVE codec runs: a record is written with wav_write, and the file it   *)
(* wrote, or a file from another tool, is read with wav_import into a new  *)
(* Wavetable({}), one chunk_id per step.                                   *)
(***************************************************************************)
VendorA == <<97>>
VendorAB == <<97, 98>>
VendorABC == <<97, 98, 99>>

\* a stereo 32-bit float record at 44100 Hz
StereoFloat ==
    Wavetable([data_samples |-> <<1, 2, 3, 4, 5, 6, 7, 8>>, fmt_audio_format |-> 3,
               fmt_channels |-> 2, fmt_sample_rate |-> 44100, fmt_bytes_p_sec |-> 352800,
               fmt_bytes_p_block |-> 8, fmt_bits_p_sample |-> 32, wave_size |-> 1,
               wave_count |-> 1])

\* records with a four-digit wave size and interpolation 9; sample bytes and
\* vendor bytes that spell chunk tags ('RIFF' 0 'AVI ', 'data') among them,
\* and a record with block_align 0
StableRecords ==
    {Wavetable([data_samples |-> d, wave_size |-> ws, wave_interp |-> 9,
                wave_vendor |-> v, wave_count |-> 0]) :
        d \in {<< >>, <<1, 2, 3>>, TagRIFF \o <<0, 0, 0, 0, 65, 86, 73, 32>>},
        ws \in {1000, 9999},
        v \in {VendorA, VendorAB, TagData}}
    \cup {Wavetable([data_samples |-> <<1, 2, 3>>, wave_size |-> 1000,
                     fmt_bits_p_sample |-> 4, fmt_bytes_p_block |-> 0,
                     fmt_bytes_p_sec |-> 0, wave_count |-> 0])}

WavRecords ==
    {Wavetable([data_samples |-> d, wave_size |-> ws, wave_interp |-> wi,
                wave_vendor |-> v, wave_count |-> 0]) :
        d \in BitSeqs(MaxData), ws \in {8, 256, 1024, 2048, 16384}, wi \in {0, 1, 4},
        v \in {<< >>, VendorA, VendorAB, VendorABC, DefaultVendor}}
    \cup {StereoFloat, Wavetable([data_samples |-> <<1, 2>>, fmt_channels |-> 65536])}
    \cup StableRecords

\* a chunk: tag, declared size, the payload bytes actually in the file
Chunk(tag, size, payload) == tag \o ToBytes(size, 4) \o payload

RiffHead(marker) == TagRIFF \o <<0, 0, 0, 0>> \o marker

\* the marker of a RIFF file that is not a WAVE file ('AVI ')
TagAVI == <<65, 86, 73, 32>>

\* a PCM fmt chunk as wav_write lays it out
FmtChunk(ch, ba, bits) ==
    Chunk(TagFmt, 16, ToBytes(1, 2) \o ToBytes(ch, 2) \o ToBytes(88200, 4)
                      \o ToBytes(88200 * ba, 4) \o ToBytes(ba, 2) \o ToBytes(bits, 2))

\* a clm chunk '<!>dddd 10000000 v' with the four bytes dddd given
ClmChunk(dddd) ==
    Chunk(TagClm, 18, <<60, 33, 62>> \o dddd
                      \o <<32, 49, 48, 48, 48, 48, 48, 48, 48, 32, 118>>)

DataChunk(payload) == Chunk(TagData, Len(payload), payload)

\* what a WAVE file may start with: a RIFF/WAVE header, a RIFF header of
\* another format, or no header at all
WavHeads == {RiffHead(TagWAVE), RiffHead(TagAVI), << >>}

\* no fmt chunk, 8-bit mono, 16-bit mono, a block align of zero
WavFmts == {<< >>, FmtChunk(1, 1, 8), FmtChunk(1, 2, 16), FmtChunk(1, 0, 8)}

\* no clm chunk, wave sizes '0001', '-001', '0000', and 'abcd'
WavClms ==
    {<< >>, ClmChunk(<<48, 48, 48, 49>>), ClmChunk(<<45, 48, 48, 49>>),
     ClmChunk(<<48, 48, 48, 48>>), ClmChunk(<<97, 98, 99, 100>>)}

\* payloads of a first data chunk
FirstPayloads == {<< >>, <<7>>, <<7, 8, 9>>}

\* payloads of a later data chunk: samples, or samples that spell a chunk tag
LaterPayloads ==
    {<<5, 6>>, RiffHead(<<74, 85, 78, 75>>), TagClm \o <<0, 0, 0, 0>>,
     FmtChunk(1, 2, 16)}

\* a data chunk declaring 4 bytes with 2 in the file; fmt chunks cut after
\* 4 and after 14 payload bytes; a clm chunk declaring 30 bytes with 10
TruncatedTails ==
    {Chunk(TagData, 4, <<7, 8>>),
     DataChunk(<<7, 8>>) \o SubSeq(FmtChunk(1, 1, 8), 1, 12),
     DataChunk(<<7, 8>>) \o SubSeq(FmtChunk(1, 1, 8), 1, 22),
     FmtChunk(1, 1, 8) \o DataChunk(<<7, 8>>)
        \o Chunk(TagClm, 30, <<60, 33, 62, 48, 48, 48, 49, 32, 49, 48>>)}

\* bytes between chunks that spell no tag: none, one byte, a JUNK chunk of
\* odd size, the first three bytes of a tag
JunkBytes ==
    {<< >>, <<0>>, <<74, 85, 78, 75, 3, 0, 0, 0, 1, 2, 3>>, <<100, 97, 116>>}

\* a WAVE file with the bytes j before the header and before each chunk
Unaligned(j) ==
    j \o RiffHead(TagWAVE) \o j \o FmtChunk(1, 1, 8) \o j
      \o ClmChunk(<<48, 48, 48, 49>>) \o j \o DataChunk(<<7, 8>>) \o j

\* WAVE files as any tool may have written them
WavFiles ==
    {h \o m \o c \o d : h \in WavHeads, m \in WavFmts, c \in WavClms,
        d \in {<< >>} \cup {DataChunk(d1) : d1 \in FirstPayloads}
               \cup {DataChunk(d1) \o DataChunk(d2) :
                        d1 \in FirstPayloads, d2 \in LaterPayloads}
               \cup {DataChunk(<<7>>) \o RiffHead(TagAVI) \o FmtChunk(1, 1, 8)}}
    \cup {h \o t : h \in WavHeads, t \in TruncatedTails}
    \cup {Unaligned(j) : j \in JunkBytes}

WavInit ==
    /\ \/ rec \in WavRecords /\ file = NoFile
       \/ rec = Wavetable(<< >>) /\ file \in WavFiles
    /\ prev = rec
    /\ pfile = file
    /\ pos = 0
    /\ hist = << >>
    /\ arg = NoArg
    /\ ret = "None"
    /\ cycles = << >>
    /\ inpaths = << >>
    /\ log = << >>

WavWrite ==
    /\ CanCall
    /\ LET w == wav_write(rec, file)
       IN  /\ file' = w.file
           /\ ret' = w.ret
    /\ prev' = rec
    /\ pfile' = file
    /\ hist' = Append(hist, "wav_write")
    /\ UNCHANGED <<rec, pos, cycles, arg, inpaths, log>>

\* wavetable_instance = Wavetable(init_defaults); wav_import(inpath) up to
\* the open()
WavOpen ==
    /\ CanCall
    /\ rec' = Wavetable(<< >>)
    /\ ret' = IF file = NoFile THEN "raised" ELSE "reading"
    /\ pos' = 0
    /\ prev' = rec
    /\ pfile' = file
    /\ hist' = Append(hist, "wav_import")
    /\ UNCHANGED <<file, cycles, arg, inpaths, log>>

\* one turn of the while loop that read 4 bytes
WavParseChunk ==
    /\ ret = "reading"
    /\ Len(Read(file, pos, 4)) = 4
    /\ LET s == wav_parse_chunk(rec, file, pos + 4, Read(file, pos, 4))
       IN  /\ rec' = s.rec
           /\ pos' = s.pos
           /\ ret' = IF s.ret = "None" THEN "reading" ELSE s.ret
    /\ UNCHANGED <<prev, file, pfile, hist, arg, cycles, inpaths, log>>

\* the turn that read fewer than 4 bytes: break, then calc_wave_count
WavEnd ==
    /\ ret = "reading"
    /\ Len(Read(file, pos, 4)) # 4
    /\ IF calc_wave_count_raises(rec)
       THEN rec' = rec /\ ret' = "raised"
       ELSE rec' = [rec EXCEPT !.wave_count = calc_wave_count(rec)] /\ ret' = "None"
    /\ UNCHANGED <<prev, file, pfile, pos, hist, arg, cycles, inpaths, log>>

WavNext == WavWrite \/ WavOpen \/ WavParseChunk \/ WavEnd

SpecWav == WavInit /\ [][WavNext]_vars

\* wav_import has returned (or raised) on the file wav_write wrote from prev
WavRoundTrip ==
    /\ Len(hist) >= 2
    /\ hist[Len(hist)] = "wav_import" /\ hist[Len(hist) - 1] = "wav_write"
    /\ ret # "reading"

\* C1 as stated: for any sample buffer, wave_size >= 1, wave_interp in 0..4
\* and vendor bytes, wav_write then wav_import into a new record gives back
\* data_samples, wave_size, wave_interp and wave_vendor.
C1_WavRoundTrip ==
    (WavRoundTrip /\ prev.wave_size >= 1 /\ prev.wave_interp \in 0..4) =>
        /\ ret = "None"
        /\ rec.data_samples = prev.data_samples
        /\ rec.wave_size = prev.wave_size
        /\ rec.wave_interp = prev.wave_interp
        /\ rec.wave_vendor = prev.wave_vendor

WavImported == LastOp = "wav_import" /\ ret # "reading"

\* C11 as stated: in a WAVE stream with two data chunks wav_import leaves
\* data_samples equal to the payload of the first one, empty or not, and the
\* second data chunk does not make an import fail that succeeds without it.
C11_FirstDataWins ==
    WavImported =>
        \A m \in WavFmts, c \in WavClms, d1 \in FirstPayloads, d2 \in LaterPayloads :
            LET one == RiffHead(TagWAVE) \o m \o c \o DataChunk(d1)
            IN  (file = one \o DataChunk(d2)
                    /\ wav_import(Wavetable(<< >>), one).ret = "None") =>
                  (ret = "None" /\ rec.data_samples = d1)

\* C12: when the chunk scan of wav_import meets a RIFF tag whose nested
\* marker is not 'WAVE', wav_import returns True at that step with the record
\* as it was (wave_count not recalculated), and nothing is parsed after it:
\* the record stays as it is until another operation is called.
C12_RiffAbort ==
    [][ /\ (ret = "reading" /\ Read(file, pos, 4) = TagRIFF
                /\ Read(file, pos + 8, 4) # TagWAVE) =>
              (ret' = "True" /\ rec' = rec /\ hist' = hist)
        /\ (LastOp = "wav_import" /\ ret = "True") =>
              (rec' = rec \/ hist' # hist) ]_vars

\* a RIFF tag of another format met after the fmt and data chunks, with an
\* fmt chunk behind it that is never read
C12_Witness ==
    /\ LastOp = "wav_import" /\ ret = "True"
    /\ file = RiffHead(TagWAVE) \o FmtChunk(1, 2, 16) \o DataChunk(<<7>>)
                \o RiffHead(TagAVI) \o FmtChunk(1, 1, 8)
    /\ rec.data_samples = <<7>>
    /\ rec.fmt_bytes_p_block = 2
    /\ rec.wave_count = NoneInt
    /\ pos = Len(file) - Len(FmtChunk(1, 1, 8))

\* floor(a / b) for b # 0
FloorDiv(a, b) == IF b > 0 THEN a \div b ELSE (-a) \div (-b)

\* block_align as the fmt chunk m stores it (none: the constructor's), and
\* wave_size as the clm chunk c gives it (none: 2048)
StoredBlockAlign(m) ==
    IF m = << >> THEN Wavetable(<< >>).fmt_bytes_p_block
    ELSE FromBytes(SubSeq(m, 21, 22))
ClmWaveSize(c) == IF c = << >> THEN 2048 ELSE PyInt(SubSeq(c, 12, 15)).val

\* the file is header, fmt, clm and data chunks in that order, and the record
\* holds that fmt chunk's block_align and that clm chunk's wave_size
\* (of more than one fmt chunk the last one scanned: the payload d2 of a data
\* chunk that is ignored because d1 was captured is scanned too)
LastFmt(m, d1, d2) ==
    IF d1 # << >> /\ Len(d2) >= 4 /\ SubSeq(d2, 1, 4) = TagFmt THEN d2 ELSE m

FieldsFromChunks ==
    \A h \in WavHeads, m \in WavFmts, c \in WavClms :
        /\ \A d \in {<< >>} \cup {DataChunk(d1) : d1 \in FirstPayloads} :
              file = h \o m \o c \o d =>
                /\ rec.fmt_bytes_p_block = StoredBlockAlign(m)
                /\ rec.wave_size = ClmWaveSize(c)
        /\ \A d1 \in FirstPayloads, d2 \in LaterPayloads :
              file = h \o m \o c \o DataChunk(d1) \o DataChunk(d2) =>
                /\ rec.fmt_bytes_p_block = StoredBlockAlign(LastFmt(m, d1, d2))
                /\ rec.wave_size = ClmWaveSize(c)

WavWritten == LastOp = "wav_write" /\ ret = "None"

\* the size field of the clm chunk of a file wav_write wrote (bytes 40..43)
ClmSize(f) == FromBytes(Read(f, 40, 4))

\* C15: the file wav_write produces is 'RIFF', the file length minus 8,
\* 'WAVE', 'fmt ' with size 16 and the six format fields little-endian,
\* 'clm ' with its payload length and payload, 'data' with
\* len(data_samples) and data_samples, in that order and nothing else.
C15_WavLayout ==
    WavWritten =>
        file = TagRIFF \o ToBytes(Len(file) - 8, 4) \o TagWAVE
               \o TagFmt \o <<16, 0, 0, 0>>
               \o ToBytes(prev.fmt_audio_format, 2) \o ToBytes(prev.fmt_channels, 2)
               \o ToBytes(prev.fmt_sample_rate, 4) \o ToBytes(prev.fmt_bytes_p_sec, 4)
               \o ToBytes(prev.fmt_bytes_p_block, 2) \o ToBytes(prev.fmt_bits_p_sample, 2)
               \o TagClm \o ToBytes(ClmSize(file), 4) \o Read(file, 44, ClmSize(file))
               \o TagData \o ToBytes(Len(prev.data_samples), 4) \o prev.data_samples

C15_Witness ==
    /\ WavWritten
    /\ prev = StereoFloat
    /\ Len(file) = 100
    /\ Read(file, 4, 4) = <<92, 0, 0, 0>>
    /\ Read(file, 20, 16) = <<3, 0, 2, 0, 68, 172, 0, 0, 32, 98, 5, 0, 8, 0, 32, 0>>

\* C16: the clm payload wav_write writes has even length and is the preamble
\* '<!>{wave_size} {wave_interp}0000000 ' followed by the vendor bytes and by
\* one 0x00 byte exactly when that concatenation has odd length; the clm size
\* field is the padded length (the data chunk starts right behind it).
C16_ClmPayload ==
    WavWritten =>
        LET concat == <<60, 33, 62>> \o FormatInt(prev.wave_size) \o <<32>>
                      \o FormatInt(prev.wave_interp)
                      \o <<48, 48, 48, 48, 48, 48, 48, 32>> \o prev.wave_vendor
            padded == IF Len(concat) % 2 = 1 THEN concat \o <<0>> ELSE concat
        IN  /\ ClmSize(file) % 2 = 0
            /\ ClmSize(file) = Len(padded)
            /\ Read(file, 44, ClmSize(file)) = padded
            /\ Read(file, 44 + ClmSize(file), 4) = TagData

\* '<!>2048 10000000 ab' has 19 bytes and is padded to 20
C16_Witness ==
    /\ WavWritten
    /\ prev.wave_size = 2048 /\ prev.wave_interp = 1 /\ prev.wave_vendor = VendorAB
    /\ ClmSize(file) = 20
    /\ Read(file, 61, 3) = <<97, 98, 0>>

\* C19 as stated: wav_import on a file whose data or clm chunk declares more
\* bytes than the file holds, or whose fmt chunk ends before its 16 payload
\* bytes, reports a failure (True, or an exception) rather than a record built
\* from the shortened payload.
C19_TruncatedFails ==
    (WavImported /\ \E t \in TruncatedTails : file = RiffHead(TagWAVE) \o t) =>
        ret # "None"

(***************************************************************************)
(* Scan runs: wav_import alone on files from other tools, its chunk loop   *)
(* scheduled until it has ended (a Python loop runs on until it breaks,    *)
(* returns or raises).                                                     *)
(***************************************************************************)
ScanFiles ==
    {Unaligned(j) : j \in JunkBytes}
    \cup {h \o t : h \in WavHeads, t \in TruncatedTails}
    \cup {h \o DataChunk(d1) \o DataChunk(d2) :
            h \in WavHeads, d1 \in FirstPayloads, d2 \in LaterPayloads}

ScanInit ==
    /\ rec = Wavetable(<< >>)
    /\ file \in ScanFiles
    /\ prev = rec
    /\ pfile = file
    /\ pos = 0
    /\ hist = << >>
    /\ arg = NoArg
    /\ ret = "None"
    /\ cycles = << >>
    /\ inpaths = << >>
    /\ log = << >>

ScanNext == WavOpen \/ WavParseChunk \/ WavEnd

SpecScan == ScanInit /\ [][ScanNext]_vars /\ WF_vars(WavParseChunk \/ WavEnd)

\* C21: the chunk scan of wav_import terminates; every loop turn advances
\* the read position; a turn that reads an unrecognized tag advances it by
\* exactly 1 byte and changes nothing else; with fewer than 4 bytes left the
\* scan ends without reporting a failure and without reading further; so a
\* file with bytes that spell no tag between its chunks decodes to the same
\* record as the file without them.
C21_ScanTerminates ==
    /\ [][ /\ (ret = "reading" /\ Len(Read(file, pos, 4)) = 4) => pos' > pos
           /\ (ret = "reading" /\ Len(Read(file, pos, 4)) = 4
                 /\ Read(file, pos, 4) \notin {TagRIFF, TagFmt, TagClm, TagData}) =>
                 (pos' = pos + 1 /\ rec' = rec /\ ret' = "reading")
           /\ (ret = "reading" /\ Len(Read(file, pos, 4)) < 4) =>
                 (ret' \in {"None", "raised"} /\ pos' = pos
                    /\ OtherFieldsSame([rec' EXCEPT !.wave_count = rec.wave_count], rec)
                    /\ rec'.data_samples = rec.data_samples) ]_vars
    /\ [](\A j \in JunkBytes :
            (WavImported /\ file = Unaligned(j)) =>
                (ret = "None" /\ rec = wav_import(Wavetable(<< >>), Unaligned(<< >>)).rec))
    /\ (ret = "reading") ~> (ret # "reading")

\* the scan stepped byte by byte over an 11-byte JUNK chunk four times and
\* still found every chunk
C21_Witness ==
    /\ WavImported /\ ret = "None"
    /\ file = Unaligned(<<74, 85, 78, 75, 3, 0, 0, 0, 1, 2, 3>>)
    /\ rec.data_samples = <<7, 8>> /\ rec.wave_size = 1
    /\ rec.fmt_bytes_p_block = 1 /\ rec.wave_count = 2

\* a payload of the same length with no byte of a tag in it
Blank(d) == [i \in 1..Len(d) |-> 0]

FormatFields ==
    {"fmt_audio_format", "fmt_channels", "fmt_sample_rate", "fmt_bytes_p_block",
     "fmt_bits_p_sample", "wave_size", "wave_interp", "wave_vendor"}

\* C24 as stated: the format and clm fields decoded by wav_import do not
\* depend on the bytes inside data-chunk payloads: a file with a captured
\* and a later, ignored data chunk decodes to the same audio_format,
\* channels, sample_rate, block_align, bits_per_sample, wave_size,
\* wave_interp and wave_vendor as the file that differs from it only in
\* the payload bytes of the two chunks.
C24_PayloadOpaque ==
    (WavImported /\ ret = "None") =>
        \A h \in WavHeads, m \in WavFmts, c \in WavClms,
           d1 \in FirstPayloads, d2 \in LaterPayloads :
            file = h \o m \o c \o DataChunk(d1) \o DataChunk(d2) =>
                LET other == wav_import(Wavetable(<< >>),
                                 h \o m \o c \o DataChunk(Blank(d1)) \o DataChunk(Blank(d2)))
                IN  other.ret = "None" =>
                        \A k \in FormatFields : rec[k] = other.rec[k]

(***************************************************************************)
(* set_data runs: one call of set_data on a record, with every choice of   *)
(* arguments left at None or supplied.                                     *)
(***************************************************************************)
\* records with consistent and with stale derived fields
SetRecords ==
    {Wavetable([data_samples |-> d, wave_size |-> 1, fmt_bytes_p_block |-> ba,
                fmt_bytes_p_sec |-> 88200 * ba, wave_count |-> wc, wave_interp |-> 1]) :
        d \in {<< >>, <<1, 2, 3, 4, 5>>}, ba \in {2, 3}, wc \in {0, 2, 9}}

\* the keyword arguments of a call: each None (NoneInt, None for the vendor
\* string) or a value, 0 included; the vendor string is the euro sign
SetCalls ==
    [fmt_bits_p_sample : {NoneInt, 0, 8}, fmt_bytes_p_block : {NoneInt, 3},
     fmt_channels : {NoneInt, 0, 2}, fmt_sample_rate : {NoneInt, 0, 44100},
     wave_count : {NoneInt, 7}, wave_interp : {NoneInt, 0},
     wave_size : {NoneInt, 0, 2}, wave_vendor : {None, <<8364>>}]

\* the arguments of the call that are not None
Present(call) ==
    LET given == {k \in DOMAIN call :
                    IF k = "wave_vendor" THEN call[k] # None ELSE call[k] # NoneInt}
    IN  [k \in given |-> call[k]]

SetInit ==
    /\ rec \in SetRecords
    /\ prev = rec
    /\ file = NoFile
    /\ pfile = file
    /\ pos = 0
    /\ hist = << >>
    /\ arg = NoArg
    /\ ret = "None"
    /\ cycles = << >>
    /\ inpaths = << >>
    /\ log = << >>

\* one call of set_data per record
SetData ==
    /\ hist = << >>
    /\ \E call \in SetCalls, recalc \in BOOLEAN :
         LET s == set_data(rec, Present(call), recalc)
         IN  /\ rec' = s.rec
             /\ ret' = s.ret
             /\ arg' = [a |-> Present(call), recalc |-> recalc]
    /\ prev' = rec
    /\ pfile' = file
    /\ hist' = Append(hist, "set_data")
    /\ UNCHANGED <<file, pos, cycles, inpaths, log>>

SetNext == SetData

SpecSet == SetInit /\ [][SetNext]_vars

Derived == {"fmt_bytes_p_block", "fmt_bytes_p_sec", "wave_count"}

\* the value set_data assigns to attribute k when its argument is present
Assigned(k) ==
    IF k \notin DOMAIN arg.a THEN prev[k]
    ELSE IF k = "wave_vendor" THEN EncodeAnsi(arg.a[k]) ELSE arg.a[k]

\* C23 as stated: set_data assigns exactly the attributes whose argument is
\* present (an explicit 0 is applied) and leaves the others unchanged;
\* block_align, bytes_per_second and wave_count keep their stored (or
\* assigned) values unless recalc is True and at least one of
\* bits_per_sample, channels, sample_rate, wave_size was supplied, and then
\* all three are recomputed from their formulas.
C23_SetDataSupplied ==
    (LastOp = "set_data" /\ ret = "None") =>
        LET supplied == arg.recalc /\ DOMAIN arg.a \cap
                {"fmt_bits_p_sample", "fmt_channels", "fmt_sample_rate", "wave_size"} # {}
            c == rec.wave_size * rec.fmt_bytes_p_block
        IN  /\ \A k \in Fields \ Derived : rec[k] = Assigned(k)
            /\ ~supplied => \A k \in Derived : rec[k] = Assigned(k)
            /\ supplied =>
                 /\ rec.fmt_bytes_p_block * 8 <= rec.fmt_channels * rec.fmt_bits_p_sample
                 /\ rec.fmt_channels * rec.fmt_bits_p_sample < (rec.fmt_bytes_p_block + 1) * 8
                 /\ rec.fmt_bytes_p_sec = rec.fmt_sample_rate * rec.fmt_bytes_p_block
                 /\ c > 0
                 /\ rec.wave_count = Len(rec.data_samples) \div c

(***************************************************************************)
(* maketable runs: make_table on one input file, step by step.             *)
(***************************************************************************)
\* mono and stereo inputs, 8 and 16 bits, and three channels
TableFmts ==
    {FmtChunk(1, 1, 8), FmtChunk(1, 2, 16), FmtChunk(2, 2, 8), FmtChunk(2, 4, 16),
     FmtChunk(3, 3, 8)}

\* no clm chunk (wave size 2048), wave sizes '0001', '0002' and '-001'
TableClms ==
    {<< >>, ClmChunk(<<48, 48, 48, 49>>), ClmChunk(<<48, 48, 48, 50>>),
     ClmChunk(<<45, 48, 48, 49>>)}

TablePayloads == {<< >>, <<7>>, <<1, 2, 3, 4, 5>>, <<10, 11, 20, 21, 12, 13, 22, 23, 9>>}

TableFiles ==
    {RiffHead(TagWAVE) \o m \o c \o DataChunk(d) :
        m \in TableFmts, c \in TableClms, d \in TablePayloads}
    \cup {RiffHead(TagAVI)}

\* arguments of the maketable programme: each override absent (None) or
\* supplied, 0 included
TableArguments ==
    [samplerate : {NoneInt, 0, 44100}, waveinterp : {NoneInt, 3},
     wavesize : {NoneInt, 0, 1, 2}, wavevendor : {None, <<65>>}, right : BOOLEAN]

TableInit ==
    /\ rec = Wavetable(<< >>)
    /\ prev = rec
    /\ file \in TableFiles
    /\ pfile = file
    /\ pos = 0
    /\ hist = << >>
    /\ arg \in TableArguments
    /\ ret = "None"
    /\ cycles = << >>
    /\ inpaths = << >>
    /\ log = << >>

\* the step of make_table that comes next
TableAt(done) == hist = done /\ ret = "None"

TableImport ==
    /\ TableAt(<< >>)
    /\ LET s == wav_import(rec, file)
       IN  /\ rec' = s.rec
           /\ ret' = s.ret
    /\ prev' = rec
    /\ pfile' = file
    /\ hist' = Append(hist, "wav_import")
    /\ UNCHANGED <<file, pos, cycles, arg, inpaths, log>>

TableSetData ==
    /\ TableAt(<<"wav_import">>)
    /\ LET s == set_data(rec, Present([fmt_sample_rate |-> arg.samplerate,
                                        wave_interp |-> arg.waveinterp,
                                        wave_size |-> arg.wavesize,
                                        wave_vendor |-> arg.wavevendor]), TRUE)
       IN  /\ rec' = s.rec
           /\ ret' = s.ret
    /\ prev' = rec
    /\ pfile' = file
    /\ hist' = Append(hist, "set_data")
    /\ UNCHANGED <<file, pos, cycles, arg, inpaths, log>>

TableChooseChannel ==
    /\ TableAt(<<"wav_import", "set_data">>)
    /\ LET s == choose_channel(rec, arg.right)
       IN  /\ rec' = s.rec
           /\ ret' = s.ret
    /\ prev' = rec
    /\ pfile' = file
    /\ hist' = Append(hist, "choose_channel")
    /\ UNCHANGED <<file, pos, cycles, arg, inpaths, log>>

TableTrim ==
    /\ TableAt(<<"wav_import", "set_data", "choose_channel">>)
    /\ LET s == trim(rec)
       IN  /\ rec' = s.rec
           /\ ret' = s.ret
    /\ prev' = rec
    /\ pfile' = file
    /\ hist' = Append(hist, "trim")
    /\ UNCHANGED <<file, pos, cycles, arg, inpaths, log>>

\* overwrite(outpath, forceoverwrite) and wav_write(outpath)
TableWrite ==
    /\ TableAt(<<"wav_import", "set_data", "choose_channel", "trim">>)
    /\ \E overwrite \in BOOLEAN :
         IF overwrite
         THEN LET w == wav_write(rec, NoFile)
              IN  /\ file' = w.file
                  /\ ret' = w.ret
                  /\ hist' = Append(hist, "wav_write")
         ELSE /\ ret' = "False"
              /\ hist' = Append(hist, "overwrite")
              /\ UNCHANGED file
    /\ prev' = rec
    /\ pfile' = file
    /\ UNCHANGED <<rec, pos, cycles, arg, inpaths, log>>

TableNext ==
    TableImport \/ TableSetData \/ TableChooseChannel \/ TableTrim \/ TableWrite

SpecTable == TableInit /\ [][TableNext]_vars

TableWritten ==
    /\ hist = <<"wav_import", "set_data", "choose_channel", "trim", "wav_write">>
    /\ ret = "None"

\* C27 as stated: every WAVE file written by the maketable pipeline has
\* channels = 1 and a data payload (the buffer at the time of writing) of
\* exactly wave_count * wave_size * block_align bytes, with wave_count =
\* floor(len(data_samples) / (wave_size * block_align)), for mono and stereo
\* inputs and every combination of sample-rate, wave-size, interpolation
\* and vendor overrides.
C27_TableWholeCycles ==
    TableWritten =>
        LET c == rec.wave_size * rec.fmt_bytes_p_block
            n == Len(rec.data_samples)
        IN  /\ FromBytes(Read(file, 22, 2)) = 1
            /\ Read(file, Len(file) - n - 8, n + 8) = DataChunk(rec.data_samples)
            /\ n = rec.wave_count * c
            /\ c # 0
            /\ rec.wave_count = FloorDiv(n, c)

(***************************************************************************)
(* Batch runs: programme printinfo over a list of input paths (wtt.py      *)
(* 473-489), one turn of its for loop per step.  An exception leaves       *)
(* print_info and main and is logged by the except clause of __main__,     *)
(* which ends the programme.                                               *)
(***************************************************************************)
MaxPaths == 2   \* most input paths of one batch

\* a WT file of one 16-bit cycle with the flags given
WtFile(flags) ==
    TagVawt \o ToBytes(2, 4) \o ToBytes(1, 2) \o ToBytes(flags, 2) \o <<1, 2, 3, 4>>

\* input files: a good WAVE file, a RIFF file that is not WAVE, a WAVE file
\* with no data chunk, with a clm chunk that is not numeric, with a block
\* align of zero, a good WT file, a WT sample, and a text file
BatchFiles ==
    {[ext |-> "wav", content |-> RiffHead(TagWAVE) \o FmtChunk(1, 1, 8) \o DataChunk(<<7>>)],
     [ext |-> "wav", content |-> RiffHead(TagAVI) \o FmtChunk(1, 1, 8) \o DataChunk(<<7>>)],
     [ext |-> "wav", content |-> RiffHead(TagWAVE) \o FmtChunk(1, 1, 8)],
     [ext |-> "wav", content |-> RiffHead(TagWAVE) \o ClmChunk(<<97, 98, 99, 100>>)
                                  \o DataChunk(<<7>>)],
     [ext |-> "wav", content |-> RiffHead(TagWAVE) \o FmtChunk(1, 0, 8) \o DataChunk(<<7>>)],
     [ext |-> "wt", content |-> WtFile(4)],
     [ext |-> "wt", content |-> WtFile(1)],
     [ext |-> "txt", content |-> <<104, 105>>]}

BatchInit ==
    /\ inpaths \in UNION {[1..n -> BatchFiles] : n \in 1..MaxPaths}
    /\ arg = [inpath |-> inpaths]
    /\ log = << >>
    /\ rec = Wavetable(<< >>)
    /\ prev = rec
    /\ file = NoFile
    /\ pfile = file
    /\ pos = 0
    /\ hist = << >>
    /\ ret = "None"
    /\ cycles = << >>

\* one turn of "for inpath in inpaths" in print_info
PrintInfo ==
    /\ inpaths # << >>
    /\ ret # "raised"
    /\ LET inpath == Head(inpaths)
           s == IF inpath.ext = "wav" THEN wav_import(Wavetable(<< >>), inpath.content)
                ELSE wt_import(Wavetable(<< >>), inpath.content)
       IN  IF inpath.ext \notin {"wav", "wt"}
           THEN /\ log' = Append(log, "is not a wav or wt file.")
                /\ ret' = "None"
                /\ rec' = Wavetable(<< >>)
           ELSE /\ rec' = s.rec
                /\ ret' = s.ret
                /\ log' = Append(log, CASE s.ret = "True" -> "File skipped."
                                         [] s.ret = "raised" -> "exception"
                                         [] OTHER -> "Wavetable info:")
    /\ inpaths' = Tail(inpaths)
    /\ file' = Head(inpaths).content
    /\ prev' = rec
    /\ pfile' = file
    /\ hist' = Append(hist, "print_info")
    /\ UNCHANGED <<pos, arg, cycles>>

BatchNext == PrintInfo

SpecBatch == BatchInit /\ [][BatchNext]_vars

\* the programme has ended: the loop ran out of paths or an exception left it
BatchEnded == inpaths = << >> \/ ret = "raised"

\* C14 as stated: in a batch a decode error on one input file skips only
\* that file and every later input path is still processed: the programme
\* never ends with an input path left, and has logged an outcome for each.
C14_BatchContinues ==
    BatchEnded => (inpaths = << >> /\ Len(log) = Len(arg.inpath))

====
